---- MODULE Spec2Model ----
(***************************************************************************)
(* Model of sentry-samples-android/src/main/cpp/native-sample.cpp: the two *)
(* JNI entry points NativeSample.crash() and NativeSample.message(), the   *)
(* android log they write to, and the ambient sentry session they use.     *)
(*                                                                         *)
(* The native thread's position is pc; the values are the source lines     *)
(* about to be executed ("m_16" = line 16 of message(), "c_12" = line 12   *)
(* of crash()).  "idle" is the managed caller, "terminated" the dead       *)
(* process.                                                                *)
(***************************************************************************)
EXTENDS Integers, Sequences, FiniteSets, TLC

\* Bound on the number of message() calls and on the number of crash() calls.
MaxCalls == 3

TAG == "sentry-sample"

SENTRY_LEVEL_INFO == "info"

Levels == {"debug", "info", "warning", "error", "fatal"}

Sessions == {"uninitialized", "misconfigured", "healthy"}

CrashPcs == {"c_10", "c_11", "c_12"}

MessagePcs == {"m_16", "m_17", "m_24", "m_25"}

NoEvent == [id |-> 0, level |-> "none", logger |-> "none", message |-> "none"]

NoCall == [lines |-> <<>>, events |-> <<>>, submits |-> 0]

VARIABLES
    session,       \* ambient ReporterSession of the process
    pc,            \* position of the native thread
    log,           \* android log: sequence of <<tag, text>> lines
    ptr,           \* crash(): the local `ptr` ("unset" or "null")
    event,         \* message(): the local `event` handle
    uuid,          \* message(): value returned by sentry_capture_event, discarded
    constructed,   \* number of Events constructed so far
    submitted,     \* Events passed to sentry_capture_event, in order
    queue,         \* Events accepted by the session, not yet transmitted
    sink,          \* Events that reached the external sink
    msgCalls,      \* message() calls made
    crashCalls,    \* crash() calls made
    crashReturned, \* crash() calls that returned to the caller
    terminatedBy,  \* "none", or the entry point in which the process died
    callerError,   \* error observed by the managed caller
    lastOutcome,   \* outcome of the latest submission
    cur,           \* what the message() call in progress has done
    history        \* one record per completed message() call

vars == <<session, pc, log, ptr, event, uuid, constructed, submitted, queue,
          sink, msgCalls, crashCalls, crashReturned, terminatedBy,
          callerError, lastOutcome, cur, history>>

sessionVars == <<session, queue, sink, lastOutcome>>

messageVars == <<event, uuid, constructed, submitted, cur, history>>

callVars == <<msgCalls, crashCalls, crashReturned>>

----------------------------------------------------------------------------
\* External collaborators: android log and the sentry client library.

\* __android_log_print(ANDROID_LOG_WARN, TAG, text)
android_log_print(l, text) == Append(l, <<TAG, text>>)

\* sentry_value_new_message_event(level, logger, text): a fresh Event.
sentry_value_new_message_event(n, level, logger, text) ==
    [id |-> n, level |-> level, logger |-> logger, message |-> text]

\* The fields of an Event, without its identity.
Fields(e) == [level |-> e.level, logger |-> e.logger, message |-> e.message]

\* What a submission can come to in each session state.  Without options
\* the capture body is skipped and the event is never captured.
CaptureOutcomes(s) ==
    CASE s = "uninitialized" -> {"no_session"}
      [] s = "misconfigured" -> {"dropped", "serialization_failure",
                                 "transport_failure"}
      [] OTHER               -> {"accepted", "dropped", "serialization_failure",
                                 "transport_failure"}

\* The uuid sentry_capture_event returns for an outcome.
CaptureUuid(o) == IF o = "accepted" THEN "valid" ELSE "nil"

\* The session's transport queue after a submission with outcome o.
CaptureQueue(q, e, o) == IF o = "accepted" THEN Append(q, e) ELSE q

----------------------------------------------------------------------------
Init ==
    /\ session \in Sessions
    /\ pc = "idle"
    /\ log = <<>>
    /\ ptr = "unset"
    /\ event = NoEvent
    /\ uuid = "unset"
    /\ constructed = 0
    /\ submitted = <<>>
    /\ queue = <<>>
    /\ sink = <<>>
    /\ msgCalls = 0
    /\ crashCalls = 0
    /\ crashReturned = 0
    /\ terminatedBy = "none"
    /\ callerError = "none"
    /\ lastOutcome = "none"
    /\ cur = NoCall
    /\ history = <<>>

----------------------------------------------------------------------------
\* Java_io_sentry_sample_NativeSample_crash

\* The managed caller invokes NativeSample.crash().
CallCrash ==
    /\ pc = "idle"
    /\ crashCalls < MaxCalls
    /\ pc' = "c_10"
    /\ crashCalls' = crashCalls + 1
    /\ UNCHANGED <<log, ptr, msgCalls, crashReturned, terminatedBy, callerError>>
    /\ UNCHANGED sessionVars
    /\ UNCHANGED messageVars

CrashLog_NoLog ==
    /\ pc = "c_10"
    /\ pc' = "c_11"
    /\ UNCHANGED <<log, ptr, terminatedBy, callerError>>
    /\ UNCHANGED callVars
    /\ UNCHANGED sessionVars
    /\ UNCHANGED messageVars

\* line 10: __android_log_print(ANDROID_LOG_WARN, TAG, "About to crash.");
CrashLog ==
    /\ pc = "c_10"
    /\ log' = android_log_print(log, "About to crash.")
    /\ pc' = "c_11"
    /\ UNCHANGED <<ptr, terminatedBy, callerError>>
    /\ UNCHANGED callVars
    /\ UNCHANGED sessionVars
    /\ UNCHANGED messageVars

\* line 11: char *ptr = 0;
CrashInitPtr ==
    /\ pc = "c_11"
    /\ ptr' = "null"
    /\ pc' = "c_12"
    /\ UNCHANGED <<log, terminatedBy, callerError>>
    /\ UNCHANGED callVars
    /\ UNCHANGED sessionVars
    /\ UNCHANGED messageVars

\* line 12: *ptr += 1;  the access through the null pointer faults and the
\* process dies of the memory-access violation.
CrashWriteFault ==
    /\ pc = "c_12"
    /\ ptr = "null"
    /\ pc' = "terminated"
    /\ terminatedBy' = "crash"
    /\ UNCHANGED <<log, ptr, callerError>>
    /\ UNCHANGED callVars
    /\ UNCHANGED sessionVars
    /\ UNCHANGED messageVars

\* lines 12-13: the access through a non-volatile null pointer is undefined
\* behaviour; an optimising build may delete it, and crash() then returns.
CrashWriteElided ==
    /\ pc = "c_12"
    /\ ptr = "null"
    /\ pc' = "idle"
    /\ ptr' = "unset"
    /\ crashReturned' = crashReturned + 1
    /\ UNCHANGED <<log, terminatedBy, callerError, msgCalls, crashCalls>>
    /\ UNCHANGED sessionVars
    /\ UNCHANGED messageVars

----------------------------------------------------------------------------
\* Java_io_sentry_sample_NativeSample_message

\* The managed caller invokes NativeSample.message().
CallMessage ==
    /\ pc = "idle"
    /\ msgCalls < MaxCalls
    /\ pc' = "m_16"
    /\ msgCalls' = msgCalls + 1
    /\ cur' = NoCall
    /\ UNCHANGED <<log, ptr, crashCalls, crashReturned, terminatedBy, callerError>>
    /\ UNCHANGED sessionVars
    /\ UNCHANGED <<event, uuid, constructed, submitted, history>>

MessageLog_NoLog ==
    /\ pc = "m_16"
    /\ pc' = "m_17"
    /\ UNCHANGED <<log, ptr, terminatedBy, callerError>>
    /\ UNCHANGED callVars
    /\ UNCHANGED sessionVars
    /\ UNCHANGED messageVars

\* line 16: __android_log_print(ANDROID_LOG_WARN, TAG, "Sending message.");
MessageLog ==
    /\ pc = "m_16"
    /\ log' = android_log_print(log, "Sending message.")
    /\ cur' = [cur EXCEPT !.lines = Append(@, "Sending message.")]
    /\ pc' = "m_17"
    /\ UNCHANGED <<ptr, terminatedBy, callerError>>
    /\ UNCHANGED callVars
    /\ UNCHANGED sessionVars
    /\ UNCHANGED <<event, uuid, constructed, submitted, history>>

MessageNewEvent_LevelByCall ==
    /\ pc = "m_17"
    /\ event' = sentry_value_new_message_event(
                    constructed + 1,
                    IF msgCalls > 1 THEN "warning" ELSE SENTRY_LEVEL_INFO,
                    "custom", "It works!")
    /\ constructed' = constructed + 1
    /\ cur' = [cur EXCEPT !.events = Append(@, Fields(event'))]
    /\ pc' = "m_24"
    /\ UNCHANGED <<log, ptr, terminatedBy, callerError>>
    /\ UNCHANGED callVars
    /\ UNCHANGED sessionVars
    /\ UNCHANGED <<uuid, submitted, history>>

\* lines 17-21: sentry_value_t event = sentry_value_new_message_event(
\*                  SENTRY_LEVEL_INFO, "custom", "It works!");
MessageNewEvent ==
    /\ pc = "m_17"
    /\ event' = sentry_value_new_message_event(
                    constructed + 1, SENTRY_LEVEL_INFO, "custom", "It works!")
    /\ constructed' = constructed + 1
    /\ cur' = [cur EXCEPT !.events = Append(@, Fields(event'))]
    /\ pc' = "m_24"
    /\ UNCHANGED <<log, ptr, terminatedBy, callerError>>
    /\ UNCHANGED callVars
    /\ UNCHANGED sessionVars
    /\ UNCHANGED <<uuid, submitted, history>>

MessageCapture_Twice ==
    /\ pc = "m_24"
    /\ \E o \in CaptureOutcomes(session) :
          /\ lastOutcome' = o
          /\ uuid' = CaptureUuid(o)
          /\ queue' = CaptureQueue(CaptureQueue(queue, event, o), event, o)
    /\ submitted' = Append(Append(submitted, event), event)
    /\ cur' = [cur EXCEPT !.submits = @ + 2]
    /\ event' = NoEvent
    /\ pc' = "m_25"
    /\ UNCHANGED <<session, sink, log, ptr, terminatedBy, callerError>>
    /\ UNCHANGED callVars
    /\ UNCHANGED <<constructed, history>>

MessageCapture_InitFirst ==
    /\ pc = "m_24"
    /\ session' = "healthy"
    /\ \E o \in CaptureOutcomes(session') :
          /\ lastOutcome' = o
          /\ uuid' = CaptureUuid(o)
          /\ queue' = CaptureQueue(queue, event, o)
    /\ submitted' = Append(submitted, event)
    /\ cur' = [cur EXCEPT !.submits = @ + 1]
    /\ event' = NoEvent
    /\ pc' = "m_25"
    /\ UNCHANGED <<sink, log, ptr, terminatedBy, callerError>>
    /\ UNCHANGED callVars
    /\ UNCHANGED <<constructed, history>>

MessageCapture_SkipAfterFailure ==
    /\ pc = "m_24"
    /\ IF lastOutcome \in {"none", "accepted"}
         THEN /\ \E o \in CaptureOutcomes(session) :
                    /\ lastOutcome' = o
                    /\ uuid' = CaptureUuid(o)
                    /\ queue' = CaptureQueue(queue, event, o)
              /\ submitted' = Append(submitted, event)
              /\ cur' = [cur EXCEPT !.submits = @ + 1]
         ELSE /\ uuid' = "nil"
              /\ UNCHANGED <<lastOutcome, queue, submitted, cur>>
    /\ event' = NoEvent
    /\ pc' = "m_25"
    /\ UNCHANGED <<session, sink, log, ptr, terminatedBy, callerError>>
    /\ UNCHANGED callVars
    /\ UNCHANGED <<constructed, history>>

\* line 24: sentry_capture_event(event);  the Event is handed over to the
\* session, whatever becomes of it there, and the returned uuid is kept by
\* nobody.
MessageCapture ==
    /\ pc = "m_24"
    /\ \E o \in CaptureOutcomes(session) :
          /\ lastOutcome' = o
          /\ uuid' = CaptureUuid(o)
          /\ queue' = CaptureQueue(queue, event, o)
    /\ submitted' = Append(submitted, event)
    /\ cur' = [cur EXCEPT !.submits = @ + 1]
    /\ event' = NoEvent
    /\ pc' = "m_25"
    /\ UNCHANGED <<session, sink, log, ptr, terminatedBy, callerError>>
    /\ UNCHANGED callVars
    /\ UNCHANGED <<constructed, history>>

\* The record of a completed call: what it did and what the caller saw.
CallRecord(c, err, o) ==
    [lines |-> c.lines, events |-> c.events, submits |-> c.submits,
     result |-> err, outcome |-> o]

MessageReturn_PropagateError ==
    /\ pc = "m_25"
    /\ callerError' = IF uuid = "nil" THEN "capture_failed" ELSE callerError
    /\ history' = Append(history, CallRecord(cur, callerError', lastOutcome))
    /\ uuid' = "unset"
    /\ cur' = NoCall
    /\ pc' = "idle"
    /\ UNCHANGED <<log, ptr, terminatedBy>>
    /\ UNCHANGED callVars
    /\ UNCHANGED sessionVars
    /\ UNCHANGED <<event, constructed, submitted>>

MessageReturn_CloseSession ==
    /\ pc = "m_25"
    /\ session' = "uninitialized"
    /\ history' = Append(history, CallRecord(cur, callerError, lastOutcome))
    /\ uuid' = "unset"
    /\ cur' = NoCall
    /\ pc' = "idle"
    /\ UNCHANGED <<log, ptr, terminatedBy, callerError>>
    /\ UNCHANGED callVars
    /\ UNCHANGED <<queue, sink, lastOutcome>>
    /\ UNCHANGED <<event, constructed, submitted>>

MessageReturn_WaitDelivery ==
    /\ pc = "m_25"
    /\ queue = <<>>
    /\ history' = Append(history, CallRecord(cur, callerError, lastOutcome))
    /\ uuid' = "unset"
    /\ cur' = NoCall
    /\ pc' = "idle"
    /\ UNCHANGED <<log, ptr, terminatedBy, callerError>>
    /\ UNCHANGED callVars
    /\ UNCHANGED sessionVars
    /\ UNCHANGED <<event, constructed, submitted>>

\* line 25: the void function returns; nothing is handed to the caller.
MessageReturn ==
    /\ pc = "m_25"
    /\ history' = Append(history, CallRecord(cur, callerError, lastOutcome))
    /\ uuid' = "unset"
    /\ cur' = NoCall
    /\ pc' = "idle"
    /\ UNCHANGED <<log, ptr, terminatedBy, callerError>>
    /\ UNCHANGED callVars
    /\ UNCHANGED sessionVars
    /\ UNCHANGED <<event, constructed, submitted>>

----------------------------------------------------------------------------
\* The session's transport, running beside the native thread while the
\* process lives.

\* An accepted Event reaches the external sink.
Deliver ==
    /\ pc # "terminated"
    /\ queue # <<>>
    /\ sink' = Append(sink, Head(queue))
    /\ queue' = Tail(queue)
    /\ UNCHANGED <<session, lastOutcome, pc, log, ptr, terminatedBy, callerError>>
    /\ UNCHANGED callVars
    /\ UNCHANGED messageVars

\* An accepted Event is lost in transmission; nobody is told.
TransportLose ==
    /\ pc # "terminated"
    /\ queue # <<>>
    /\ queue' = Tail(queue)
    /\ UNCHANGED <<session, sink, lastOutcome, pc, log, ptr, terminatedBy,
                   callerError>>
    /\ UNCHANGED callVars
    /\ UNCHANGED messageVars

----------------------------------------------------------------------------
Next ==
    \/ CallCrash
    \/ CrashLog
    \/ CrashInitPtr
    \/ CrashWriteFault
    \/ CrashWriteElided
    \/ CallMessage
    \/ MessageLog
    \/ MessageNewEvent
    \/ MessageCapture
    \/ MessageReturn
    \/ Deliver
    \/ TransportLose

Spec == Init /\ [][Next]_vars

\* message() is straight-line code on a running thread: each of its steps
\* is taken once it is enabled.  Nothing obliges the transport to deliver.
FairSpec ==
    /\ Spec
    /\ WF_vars(MessageLog)
    /\ WF_vars(MessageNewEvent)
    /\ WF_vars(MessageCapture)
    /\ WF_vars(MessageReturn)

TypeOK ==
    /\ session \in Sessions
    /\ pc \in {"idle", "terminated"} \cup CrashPcs \cup MessagePcs
    /\ ptr \in {"unset", "null"}
    /\ uuid \in {"unset", "nil", "valid"}
    /\ constructed \in 0..MaxCalls
    /\ msgCalls \in 0..MaxCalls
    /\ crashCalls \in 0..MaxCalls
    /\ crashReturned \in 0..MaxCalls
    /\ terminatedBy \in {"none", "crash", "message"}

----------------------------------------------------------------------------
\* Helpers of the properties.

RECURSIVE CountLines(_, _)
\* Number of log lines of l that carry the given text under TAG.
CountLines(l, text) ==
    IF l = <<>> THEN 0
    ELSE (IF Head(l) = <<TAG, text>> THEN 1 ELSE 0) + CountLines(Tail(l), text)

\* The caller-visible part of a completed call, and the steps it took.
StepsOf(h) ==
    [lines |-> h.lines, events |-> h.events, submits |-> h.submits,
     result |-> h.result]

FixedFields == [level |-> "info", logger |-> "custom", message |-> "It works!"]

----------------------------------------------------------------------------
\* C1: in every session state and for every outcome of the submission,
\* message() surfaces no error to its caller: no completed call handed an
\* error back, the caller holds no error, and the process never died inside
\* message().
C1_MessageSurfacesNoError ==
    /\ callerError = "none"
    /\ terminatedBy # "message"
    /\ \A i \in DOMAIN history : history[i].result = "none"

\* A call whose submission failed in serialization has returned.
C1_Witness ==
    /\ Len(history) >= 1
    /\ history[1].outcome = "serialization_failure"
    /\ pc = "idle"

C3_SubmittedFieldsFixed ==
    \A i \in DOMAIN submitted : Fields(submitted[i]) = FixedFields

\* Two Events have been submitted to a misconfigured session.
C3_Witness ==
    /\ Len(submitted) >= 2
    /\ session = "misconfigured"

\* C4: each message() call constructs one Event and passes it to the
\* submission call exactly once: no Event is submitted twice, none is left
\* unsubmitted once the call is past line 24, and the sink never holds more
\* Events than there were calls.
C4_OneEventOneSubmission ==
    /\ \A i, j \in DOMAIN submitted :
           i # j => submitted[i].id # submitted[j].id
    /\ Len(submitted) <= constructed
    /\ constructed <= msgCalls
    /\ pc \notin {"m_16", "m_17", "m_24"} =>
           /\ Len(submitted) = msgCalls
           /\ constructed = msgCalls
    /\ pc = "m_24" => constructed = Len(submitted) + 1
    /\ Len(sink) + Len(queue) <= Len(submitted)
    /\ Len(sink) <= msgCalls

\* Several calls have completed; some Event arrived, some did not.
C4_Witness ==
    /\ pc = "idle"
    /\ msgCalls >= 2
    /\ Len(sink) >= 1
    /\ Len(sink) < msgCalls

\* C5: while the session is uninitialized, a step of the program leaves it
\* uninitialized, lets no Event into the transport or the sink, and gives
\* the caller neither an error nor a crash in message().
C5_UninitializedIsNoOp ==
    [][session = "uninitialized" =>
          /\ session' = "uninitialized"
          /\ sink' = <<>>
          /\ queue' = <<>>
          /\ callerError' = "none"
          /\ terminatedBy' # "message"]_vars

\* message() has returned from a submission to an uninitialized session.
C5_Witness ==
    /\ session = "uninitialized"
    /\ Len(history) >= 1
    /\ history[Len(history)].outcome = "no_session"
    /\ pc = "idle"

\* C6: in crash(), the line "About to crash." is in the log before the
\* write through the null pointer: once past line 10, and when the process
\* has died in crash(), it is the last line of the log, every crash() call
\* has logged it, and no Event was constructed or submitted meanwhile.
C6_CrashLogsBeforeFault ==
    (pc \in {"c_11", "c_12"} \/ terminatedBy = "crash") =>
        /\ log # <<>>
        /\ log[Len(log)] = <<TAG, "About to crash.">>
        /\ CountLines(log, "About to crash.") = crashCalls
        /\ constructed = msgCalls
        /\ Len(submitted) = msgCalls

\* The process has died of the fault in crash().
C6_Witness ==
    /\ terminatedBy = "crash"
    /\ pc = "terminated"

\* C7: in message(), the line "Sending message." is logged before the Event
\* is constructed and before it is submitted, and it is logged whatever the
\* submission comes to: there are never more constructions or submissions
\* than such lines, and every call past line 16 has logged its line.
C7_MessageLogsBeforeSubmission ==
    /\ constructed <= CountLines(log, "Sending message.")
    /\ Len(submitted) <= CountLines(log, "Sending message.")
    /\ pc # "m_16" => CountLines(log, "Sending message.") = msgCalls
    /\ \A i \in DOMAIN history : history[i].lines = <<"Sending message.">>

\* One call whose Event was dropped and one whose Event was accepted.
C7_Witness ==
    /\ \E i \in DOMAIN history : history[i].outcome = "dropped"
    /\ \E i \in DOMAIN history : history[i].outcome = "accepted"

\* C8: no step of message() or crash(), nor of the transport, changes the
\* session's initialization or configuration state.
C8_SessionUntouched == [][session' = session]_vars

\* Both entry points have run to their return in a healthy session.
C8_Witness ==
    /\ session = "healthy"
    /\ Len(history) >= 1
    /\ crashReturned >= 1

\* C9: every completed message() call took the same steps and gave the same
\* caller-visible result as the first one: one log line, one Event, one
\* submission, whatever the earlier submissions came to.
C9_CallsIndependent ==
    \A i \in DOMAIN history :
        /\ StepsOf(history[i]) = StepsOf(history[1])
        /\ Len(history[i].lines) = 1
        /\ history[i].events = <<FixedFields>>
        /\ history[i].submits = 1

\* A call has completed after an earlier call's submission failed.
C9_Witness ==
    /\ Len(history) >= 3
    /\ history[1].outcome = "transport_failure"
    /\ history[2].outcome = "accepted"

\* C10: every message() call returns to its caller, delivered or not: the
\* n-th call, once made, leads to n completed calls.
C10_MessageReturns ==
    \A n \in 1..MaxCalls :
        (msgCalls = n /\ pc \in MessagePcs) ~> (Len(history) = n)

\* message() has returned while its Event is still waiting for transmission.
C10_Witness ==
    /\ pc = "idle"
    /\ Len(history) >= 1
    /\ Len(queue) = Len(history)
    /\ sink = <<>>

====
